---- MODULE Spec2Model ----
(***************************************************************************)
(* Model of the comment client of lbrynet/extras/daemon/comment_client.py: *)
(* jsonrpc_post, jsonrpc_batch, get_comment, create_index_tree and         *)
(* populate_comment_with_replies, run against a metadata server that       *)
(* stores comments with a parent_com field; and of the metadata API of     *)
(* lbrynet/extras/daemon/comments: the request envelope and transport of   *)
(* MetadataClient / MetadataServer, ClaimMetadataAPI and CommentsAPI.      *)
(***************************************************************************)
EXTENDS Integers, Sequences, FiniteSets, TLC

\* ------------------------------------------------------------------ bounds
\* Comment ids held by the server are 1..MaxComments; MaxComments + 1 is an
\* id the server does not know.
MaxComments == 4
\* Largest call list handed to jsonrpc_batch directly (three chunks).
MaxCalls == 101
\* The server may answer calls with params in 1..MaxFailing with an error.
MaxFailing == 2
\* Caps on the comment dicts one build may allocate and on the length of
\* create_index_tree's work list (only reached when the reply graph below the
\* root holds a cycle).
MaxNodes == 5
MaxStack == 4
\* Cap on the POSTs of one operation (a build on an acyclic graph needs at most
\* 2 * MaxComments).
MaxRequests == 10

\* ------------------------------------------------------- program constants
\* range(0, len(batch), 50) and batch[part:part+50]
ChunkSize == 50

Ids == 1..MaxComments
RootIds == 1..(MaxComments + 1)

Min(a, b) == IF a < b THEN a ELSE b
Last(s) == s[Len(s)]
Front(s) == SubSeq(s, 1, Len(s) - 1)
Reverse(s) == [i \in 1..Len(s) |-> s[Len(s) + 1 - i]]

RECURSIVE SetToSeq(_)
\* The ids of a set in ascending order (the order the server lists replies in).
SetToSeq(S) ==
    IF S = {} THEN <<>>
    ELSE LET m == CHOOSE x \in S : \A y \in S : x <= y
         IN <<m>> \o SetToSeq(S \ {m})

\* Python's dict assignment d[k] = v
Put(f, k, v) == [x \in (DOMAIN f) \cup {k} |-> IF x = k THEN v ELSE f[x]]

\* ------------------------------------------------------------- JSON values
Null == [t |-> "null"]
ListVal(s) == [t |-> "list", v |-> s]
CommentVal(id) == [t |-> "comment", comment_index |-> id]
EchoVal(p) == [t |-> "val", v |-> p]
RpcErrorVal == [t |-> "error"]

VARIABLES
    parent_com,   \* server: comment id -> {} (top level) or {parent id}
    failing,      \* server: params of the abstract method that answer an error
    pc,           \* "idle", "get_comment", "batch", "done", "raised"
    op,           \* operation running: "none", "build_tree", "run_batch"
    caller,       \* who awaits jsonrpc_batch
    root_id,      \* argument of build_tree
    root_resp,    \* decoded response of get_comment's POST, or NoResp
    index_tree,   \* create_index_tree: dict id -> reply ids
    stack,        \* create_index_tree: work list of id lists
    parents,      \* create_index_tree: the popped list being expanded
    nodes,        \* heap of comment dicts, addressed by position
    mstack,       \* populate_comment_with_replies: stack of node addresses
    current,      \* populate_comment_with_replies: address popped last
    batch,        \* jsonrpc_batch: the params list
    part,         \* jsonrpc_batch: offset of the chunk in flight
    complete,     \* jsonrpc_batch: results gathered so far
    posts,        \* bodies POSTed by the jsonrpc_batch call in progress
    received,     \* response objects that call has decoded, in arrival order
    requests,     \* number of POSTs the operation has issued
    post_failed,  \* some POST of the operation met a connection failure or
                  \* a non-2xx status
    ret,          \* value returned by the finished operation
    err,          \* kind of the exception that ended the operation
    run,          \* 1 for the first build_tree, 2 for the repeated one
    prev_tree,    \* tree returned by the first build_tree
    expansions,   \* history: id -> number of get_comment_replies calls the
                  \* build in progress has POSTed for it
    request_id,   \* MetadataClient.__request_id, an attribute of the class
    manager_request_id, \* comment_manager.MetadataServer: _request_id as
                  \* each instance reads it
    username,     \* CommentsAPI._username
    request_body, \* the request envelope the last call created, or NoBody
    last_id,      \* id of the envelope the process created last, -1 if none
    highest_id,   \* largest id among the envelopes created before that one
    creators,     \* the clients that have created an envelope
    api_call,     \* the API operation called last, with its inputs
    api_result,   \* how that operation ended: a return value or an exception
    sessions,     \* concurrent tasks, each with its own MetadataClient: where
                  \* the task is in make_request, its envelope and result
    envelopes,    \* history: the envelopes the tasks created, in order
    database,     \* lbrynet.sqlite as committed: table name -> columns, rows
    now,          \* the clock STRFTIME('%s', 'now') reads
    migration,    \* how the last do_migration ended
    migrations    \* number of do_migration runs so far

vars == <<parent_com, failing, pc, op, caller, root_id, root_resp, index_tree,
          stack, parents, nodes, mstack, current, batch, part, complete,
          posts, received, requests, post_failed, ret, err, run, prev_tree,
          expansions, request_id, manager_request_id, username, request_body, last_id,
          highest_id, creators, api_call, api_result, sessions, envelopes,
          database, now, migration, migrations>>

migvars == <<database, now, migration, migrations>>

apivars == <<request_id, manager_request_id, username, request_body, last_id,
             highest_id, creators, api_call, api_result, sessions, envelopes,
             migvars>>

NoResp == [key |-> "none", value |-> [t |-> "null"]]
NoRet == [t |-> "unset"]
NoneRet == [t |-> "None"]
EmptyDict == [x \in {} |-> <<>>]

\* ------------------------------------------------------------------ server
\* get_comment_replies: the ids whose parent_com is id, oldest first.
Replies(id) == SetToSeq({c \in Ids : parent_com[c] = {id}})

\* The server's answer to one call, as the "result" or "error" member of the
\* response object.
Answer(method, params) ==
    CASE method = "get_comment_replies" ->
            IF params \in Ids THEN [key |-> "result", value |-> ListVal(Replies(params))]
            ELSE [key |-> "result", value |-> Null]
      [] method = "get_comment_data" ->
            IF params \in Ids THEN [key |-> "result", value |-> CommentVal(params)]
            ELSE [key |-> "result", value |-> Null]
      [] OTHER ->
            IF params \in failing THEN [key |-> "error", value |-> RpcErrorVal]
            ELSE [key |-> "result", value |-> EchoVal(params)]

\* A JSON-RPC batch response: one response object per request, each tagged
\* with the id it answers, in request order or reversed.
Orders == {"in_order", "reversed"}
BatchResponse(method, body, order) ==
    LET inorder == [i \in 1..Len(body) |->
                      [id |-> body[i].id,
                       key |-> Answer(method, body[i].params).key,
                       value |-> Answer(method, body[i].params).value]]
    IN IF order = "reversed" THEN Reverse(inorder) ELSE inorder

\* Acyclic reply graph below root: root is not its own ancestor.
RECURSIVE Ancestors(_, _)
Ancestors(S, k) ==
    IF k = 0 THEN {}
    ELSE LET up == UNION {parent_com[c] : c \in S \cap Ids}
         IN up \cup Ancestors(up, k - 1)
AcyclicFrom(r) == r \notin Ancestors({r}, MaxComments)

\* Ids reachable from r through reply lists (r included).
Reachable(r) == {r} \cup {c \in Ids : r \in Ancestors({c}, MaxComments)}

\* ------------------------------------------------------------ metadata API
\* ---- bounds
\* Whitespace characters a message or a username may carry at either end.
MaxPad == 1
\* Cap on the request ids one process hands out.
MaxSent == 2
\* Instances of comment_manager's MetadataServer.
MaxInstances == 2
\* Concurrent tasks of one process, and the envelopes they create in all.
MaxSessions == 3
MaxEnvelopes == 4
Sessions == 1..MaxSessions

\* ---- program constants
\* not 1 < len(params['message']) < 65536
MessageLimit == 65536
\* not 2 <= len(new_name.strip()) < 128
UsernameLimit == 128
\* len("A Cool LBRYian"), the default username
DefaultUsernameLen == 14

\* ---- strings
\* A message or a username: `body' characters that begin and end with a
\* non-whitespace character, between `lead' and `trail' whitespace characters.
Text(l, b, t) == [lead |-> l, body |-> b, trail |-> t]
len(s) == s.lead + s.body + s.trail
strip(s) == Text(0, s.body, 0)
Pads == 0..MaxPad
Messages ==
    {Text(l, b, t) : l \in Pads, t \in Pads,
                     b \in {1, 2, MessageLimit - 1, MessageLimit}}
Usernames ==
    {Text(l, b, t) : l \in Pads, t \in Pads,
                     b \in {1, 2, UsernameLimit - 1, UsernameLimit}}

\* A uri is a sequence of characters.
Scheme == <<"l", "b", "r", "y", ":", "/", "/">>
Uris ==
    {<<>>, <<"a">>, Scheme, Scheme \o <<"a">>, <<"a">> \o Scheme,
     <<"l", "b", "r", "y", ":", "/", "a">>}
startswith(s, prefix) ==
    Len(s) >= Len(prefix) /\ SubSeq(s, 1, Len(prefix)) = prefix

\* ---- decoded JSON
IntVal(n) == [t |-> "int", v |-> n]
StrVal(x) == [t |-> "str", v |-> x]
\* Python's dict.get(key, default)
Get(d, k, default) == IF k \in DOMAIN d THEN d[k] ELSE default

NoBody == [method |-> "none"]
NoTransport == [t |-> "none", status |-> 0, response |-> NoResp]
NoCall ==
    [op |-> "none", uri |-> <<>>, message |-> Text(0, 0, 0), comment_id |-> 0,
     name |-> Text(0, 0, 0), instance |-> 0, transport |-> NoTransport]

\* A task that has not called make_request: its client is as __init__ left
\* it (_is_connected = None).
NoSession == [pc |-> "idle", body |-> NoBody, is_connected |-> "None",
              result |-> NoRet]

\* No API object has been used yet.
ApiIdle ==
    /\ request_id = 0
    /\ manager_request_id = [i \in 1..MaxInstances |-> 0]
    /\ username = Text(0, DefaultUsernameLen, 0)
    /\ request_body = NoBody
    /\ last_id = -1
    /\ highest_id = -1
    /\ creators = {}
    /\ api_call = NoCall
    /\ api_result = NoRet
    /\ sessions = [s \in Sessions |-> NoSession]
    /\ envelopes = <<>>

\* Nothing has been called yet.
Idle ==
    /\ pc = "idle"
    /\ op = "none"
    /\ caller = "none"
    /\ root_id = 0
    /\ root_resp = NoResp
    /\ index_tree = EmptyDict
    /\ stack = <<>>
    /\ parents = <<>>
    /\ nodes = <<>>
    /\ mstack = <<>>
    /\ current = 0
    /\ batch = <<>>
    /\ part = 0
    /\ complete = <<>>
    /\ posts = <<>>
    /\ received = <<>>
    /\ requests = 0
    /\ post_failed = FALSE
    /\ ret = NoRet
    /\ err = "none"
    /\ run = 1
    /\ prev_tree = NoRet
    /\ expansions = [id \in RootIds |-> 0]

\* No database file is at hand and do_migration has not run.
NoMigration ==
    /\ database = EmptyDict
    /\ now = 0
    /\ migration = NoRet
    /\ migrations = 0

\* The server holds any reply graph over Ids. It numbers comments in posting
\* order, so a reply's id is above its parent's; comment 1 may carry any
\* parent_com (a corrupt record that closes a cycle).
Init ==
    /\ parent_com \in [Ids -> {{}} \cup {{j} : j \in Ids}]
    /\ \A c \in Ids \ {1} : \A p \in parent_com[c] : p < c
    /\ failing = {}
    /\ Idle
    /\ ApiIdle
    /\ NoMigration

\* For calls of jsonrpc_batch alone: the server answers some params of the
\* called method with an error; its comments play no part.
BatchInit ==
    /\ parent_com = [c \in Ids |-> {}]
    /\ failing \in SUBSET (1..MaxFailing)
    /\ Idle
    /\ ApiIdle
    /\ NoMigration

\* ------------------------------------------------------------ jsonrpc_batch
\* The body of the POST for the chunk at offset p: one request per call of
\* batch[p:p+50], numbered p+i.
BatchBodyRestartsIds(b, p) ==
    [i \in 1..Min(ChunkSize, Len(b) - p) |-> [id |-> i - 1, params |-> b[p + i]]]
BatchBodyRepeatsFirst(b, p) ==
    [i \in 1..Min(ChunkSize, Len(b) - p) |-> [id |-> p + (i - 1), params |-> b[p + 1]]]
BatchBody(b, p) ==
    [i \in 1..Min(ChunkSize, Len(b) - p) |-> [id |-> p + (i - 1), params |-> b[p + i]]]

\* [resp['result'] for resp in batch_response if 'result' in resp]
Decode(batch_response) ==
    LET kept == SelectSeq(batch_response, LAMBDA resp : resp.key = "result")
    IN [i \in 1..Len(kept) |-> kept[i].value]

\* The method jsonrpc_batch is called with by each caller.
Method ==
    CASE caller = "create_index_tree" -> "get_comment_replies"
      [] caller = "populate_comment_with_replies" -> "get_comment_data"
      [] OTHER -> "echo"

\* What can happen to one POST. The response status is never read: a non-2xx
\* answer with a JSON body is decoded like any other, one with another body
\* makes response.json() raise.
Answered == {"in_order", "reversed", "http_error_json"}
Failed == {"conn_error", "http_error_text"}

\* The response objects the POST in flight is answered with. The JSON body
\* of an HTTP error is one error object, not an array: iterating it yields
\* its keys, none of which contains 'result'.
Entries(outcome) ==
    IF outcome = "http_error_json" THEN <<>>
    ELSE BatchResponse(Method, BatchBody(batch, part), outcome)

\* What the chunk in flight adds to `complete`.
Contribution(outcome) == Decode(Entries(outcome))

\* Bookkeeping of an answered POST of jsonrpc_batch.
Answers(outcome) ==
    /\ received' = received \o Entries(outcome)
    /\ post_failed' = (post_failed \/ outcome = "http_error_json")

\* The count of get_comment_replies calls per id, after the POST of body.
Expanded(counts, body) ==
    [id \in DOMAIN counts |->
        counts[id] + Cardinality({i \in DOMAIN body : body[i].params = id})]

\* Entering jsonrpc_batch with a non-empty list: the first chunk is POSTed.
StartBatch(b, who) ==
    /\ batch' = b
    /\ part' = 0
    /\ complete' = <<>>
    /\ caller' = who
    /\ posts' = <<BatchBody(b, 0)>>
    /\ received' = <<>>
    /\ requests' = requests + 1
    /\ pc' = "batch"
    /\ expansions' = IF who = "create_index_tree"
                     THEN Expanded(expansions, BatchBody(b, 0))
                     ELSE expansions

\* No jsonrpc_batch frame is left.
NoBatch ==
    /\ batch' = <<>>
    /\ part' = 0
    /\ complete' = <<>>
    /\ caller' = "none"
    /\ posts' = <<>>
    /\ received' = <<>>
    /\ requests' = requests
    /\ expansions' = expansions

LastChunkOffByOne == part + ChunkSize + 1 >= Len(batch)
\* The chunk in flight is the last of range(0, len(batch), 50).
LastChunk == part + ChunkSize >= Len(batch)

\* ------------------------------------------------- comment tree builder
NewNode(id) == [comment_index |-> id, has_replies |-> FALSE, replies |-> <<>>]

RECURSIVE SkipLeaves(_, _, _)
\* populate_comment_with_replies, lines 54-56: pop until the popped comment
\* is a key of index_tree; the stack returned still holds that comment on top.
SkipLeaves(it, nd, ms) ==
    IF ms = <<>> THEN ms
    ELSE IF nd[Last(ms)].comment_index \in DOMAIN it THEN ms
    ELSE SkipLeaves(it, nd, Front(ms))

\* The loop of populate_comment_with_replies from its head, with heap nd and
\* stack ms: it runs to the next jsonrpc_batch call or to the end, where
\* build_tree returns the root comment.
Materialize(it, nd, ms) ==
    LET s == SkipLeaves(it, nd, ms)
    IN /\ nodes' = nd
       /\ IF s = <<>>
          THEN /\ mstack' = <<>>
               /\ current' = IF ms = <<>> THEN current ELSE ms[1]
               /\ pc' = "done"
               /\ ret' = [t |-> "tree", root |-> 1]
               /\ NoBatch
          ELSE /\ mstack' = Front(s)
               /\ current' = Last(s)
               /\ ret' = ret
               /\ StartBatch(it[nd[Last(s)].comment_index],
                             "populate_comment_with_replies")

\* The loop of create_index_tree from its head, with dict it and work list
\* st; when the work list is empty populate_comment_with_replies goes on
\* with stack = [root].
Discover(it, st, nd) ==
    /\ index_tree' = it
    /\ IF st # <<>>
       THEN /\ parents' = Last(st)
            /\ stack' = Front(st)
            /\ nodes' = nd
            /\ StartBatch(Last(st), "create_index_tree")
            /\ UNCHANGED <<mstack, current, ret>>
       ELSE /\ parents' = parents
            /\ stack' = <<>>
            /\ Materialize(it, nd, <<1>>)

RECURSIVE RecordRepliesRequeuesParents(_, _, _, _, _)
RecordRepliesRequeuesParents(it, st, ps, reply_batch, i) ==
    IF i > Len(reply_batch) THEN [index_tree |-> it, stack |-> st]
    ELSE LET replies == reply_batch[i]
         IN IF replies.t = "list" /\ Len(replies.v) > 0
            THEN RecordRepliesRequeuesParents(Put(it, ps[i], replies.v),
                                              Append(st, ps), ps, reply_batch, i + 1)
            ELSE RecordRepliesRequeuesParents(it, st, ps, reply_batch, i + 1)

RECURSIVE RecordRepliesOnce(_, _, _, _, _)
RecordRepliesOnce(it, st, ps, reply_batch, i) ==
    IF i > Len(reply_batch) THEN [index_tree |-> it, stack |-> st]
    ELSE LET replies == reply_batch[i]
         IN IF replies.t = "list" /\ Len(replies.v) > 0 /\ ps[i] \notin DOMAIN it
            THEN RecordRepliesOnce(Put(it, ps[i], replies.v), Append(st, replies.v),
                                   ps, reply_batch, i + 1)
            ELSE RecordRepliesOnce(it, st, ps, reply_batch, i + 1)

RECURSIVE RecordReplies(_, _, _, _, _)
\* create_index_tree, lines 43-46: for i, replies in enumerate(reply_batch)
RecordReplies(it, st, ps, reply_batch, i) ==
    IF i > Len(reply_batch) THEN [index_tree |-> it, stack |-> st]
    ELSE LET replies == reply_batch[i]
         IN IF replies.t = "list" /\ Len(replies.v) > 0
            THEN RecordReplies(Put(it, ps[i], replies.v), Append(st, replies.v),
                               ps, reply_batch, i + 1)
            ELSE RecordReplies(it, st, ps, reply_batch, i + 1)

populate_comment_with_repliesRootTwice(root) ==
    Discover(EmptyDict, <<<<root.comment_index>>, <<root.comment_index>>>>,
             <<NewNode(root.comment_index)>>)

\* populate_comment_with_replies(url, root): create_index_tree starts with
\* an empty dict and stack = [[root_id]].
populate_comment_with_replies(root) ==
    Discover(EmptyDict, <<<<root.comment_index>>>>, <<NewNode(root.comment_index)>>)

\* build_tree: fetch the root comment, return None when there is none,
\* otherwise populate it and return it.
build_tree(comment) ==
    IF comment = Null
    THEN /\ pc' = "done"
         /\ ret' = NoneRet
         /\ NoBatch
         /\ UNCHANGED <<index_tree, stack, parents, nodes, mstack, current>>
    ELSE populate_comment_with_replies(comment)

Raise(kind) ==
    /\ pc' = "raised"
    /\ err' = kind
    /\ post_failed' = (post_failed \/ kind # "Exception")

jsonrpc_postRaisesOnNull(json_response) ==
    IF json_response.key = "error" \/ json_response.value = Null
    THEN [raised |-> TRUE, value |-> Null]
    ELSE [raised |-> FALSE, value |-> json_response.value]

\* jsonrpc_post, lines 13-17, on the decoded response.
jsonrpc_post(json_response) ==
    IF json_response.key = "error"
    THEN [raised |-> TRUE, value |-> Null]
    ELSE [raised |-> FALSE, value |-> json_response.value]

\* build_tree(root_id) is called: get_comment POSTs get_comment_data.
CallBuildTree ==
    \E r \in RootIds :
        /\ pc = "idle"
        /\ op' = "build_tree"
        /\ root_id' = r
        /\ pc' = "get_comment"
        /\ requests' = requests + 1
        /\ UNCHANGED <<apivars, expansions, parent_com, failing, caller, root_resp, index_tree, stack,
                       parents, nodes, mstack, current, batch, part, complete,
                       posts, received, post_failed, ret, err, run, prev_tree>>

\* The POST of get_comment fails in transport or answers with a body that is
\* not JSON.
GetCommentFails ==
    \E outcome \in Failed :
        /\ pc = "get_comment"
        /\ Raise(IF outcome = "conn_error" THEN "ClientConnectionError"
                 ELSE "ContentTypeError")
        /\ UNCHANGED <<apivars, expansions, parent_com, failing, op, caller, root_id, root_resp,
                       index_tree, stack, parents, nodes, mstack, current, batch,
                       part, complete, posts, received, requests, ret, run, prev_tree>>

\* The POST of get_comment is answered with a JSON object.
GetCommentResponse ==
    \E outcome \in {"ok", "http_error_json"} :
        LET json_response ==
                IF outcome = "ok" THEN Answer("get_comment_data", root_id)
                ELSE [key |-> "error", value |-> RpcErrorVal]
            got == jsonrpc_post(json_response)
        IN /\ pc = "get_comment"
           /\ root_resp' = json_response
           /\ IF got.raised
              THEN /\ pc' = "raised"
                   /\ err' = "Exception"
                   /\ UNCHANGED <<index_tree, stack, parents, nodes, mstack,
                                  current, batch, part, complete, posts,
                                  received, requests, ret, caller, expansions>>
              ELSE /\ build_tree(got.value)
                   /\ err' = err
           /\ post_failed' = (post_failed \/ outcome = "http_error_json")
           /\ UNCHANGED <<apivars, parent_com, failing, op, root_id, run, prev_tree>>

\* A chunk that is not the last one is answered: its results are appended
\* and the next chunk is POSTed.
BatchNextChunk ==
    \E outcome \in Answered :
        /\ pc = "batch"
        /\ ~LastChunk
        /\ complete' = complete \o Contribution(outcome)
        /\ part' = part + ChunkSize
        /\ posts' = Append(posts, BatchBody(batch, part + ChunkSize))
        /\ requests' = requests + 1
        /\ expansions' = IF caller = "create_index_tree"
                         THEN Expanded(expansions, BatchBody(batch, part + ChunkSize))
                         ELSE expansions
        /\ Answers(outcome)
        /\ UNCHANGED <<apivars, parent_com, failing, pc, op, caller, root_id, root_resp,
                       index_tree, stack, parents, nodes, mstack, current, batch,
                       ret, err, run, prev_tree>>

\* A POST of jsonrpc_batch fails in transport or answers with a body that is
\* not JSON: the exception leaves jsonrpc_batch and its callers, which catch
\* nothing.
BatchFails ==
    \E outcome \in Failed :
        /\ pc = "batch"
        /\ Raise(IF outcome = "conn_error" THEN "ClientConnectionError"
                 ELSE "ContentTypeError")
        /\ UNCHANGED <<apivars, expansions, parent_com, failing, op, caller, root_id, root_resp,
                       index_tree, stack, parents, nodes, mstack, current, batch,
                       part, complete, posts, received, requests, ret, run, prev_tree>>

\* create_index_tree gets reply_batch back from jsonrpc_batch (last chunk
\* answered), records the non-empty reply lists and expands the next list.
CreateIndexTreeStep ==
    \E outcome \in Answered :
        /\ pc = "batch"
        /\ caller = "create_index_tree"
        /\ LastChunk
        /\ requests < MaxRequests
        /\ LET reply_batch == complete \o Contribution(outcome)
               rec == RecordReplies(index_tree, stack, parents, reply_batch, 1)
           IN /\ Len(rec.stack) <= MaxStack
              /\ Discover(rec.index_tree, rec.stack, nodes)
        /\ post_failed' = (post_failed \/ outcome = "http_error_json")
        /\ UNCHANGED <<apivars, parent_com, failing, op, root_id, root_resp, err, run,
                       prev_tree>>

\* current['replies'] = the comments jsonrpc_batch returned; stack += them.
AttachReplies(nd, cur, replies) ==
    LET base == Len(nd)
        fresh == [i \in 1..Len(replies) |-> NewNode(replies[i].comment_index)]
        addrs == [i \in 1..Len(replies) |-> base + i]
    IN [nodes |-> [nd EXCEPT ![cur].has_replies = TRUE, ![cur].replies = addrs]
                    \o fresh,
        pushed |-> addrs]

\* populate_comment_with_replies gets the replies of `current` back from
\* jsonrpc_batch, attaches them and goes on with the stack.
PopulateStep ==
    \E outcome \in Answered :
        /\ pc = "batch"
        /\ caller = "populate_comment_with_replies"
        /\ LastChunk
        /\ requests < MaxRequests
        /\ LET replies == complete \o Contribution(outcome)
               att == AttachReplies(nodes, current, replies)
           IN /\ Len(att.nodes) <= MaxNodes
              /\ Materialize(index_tree, att.nodes, mstack \o att.pushed)
        /\ post_failed' = (post_failed \/ outcome = "http_error_json")
        /\ UNCHANGED <<apivars, parent_com, failing, op, root_id, root_resp, index_tree,
                       stack, parents, err, run, prev_tree>>

\* jsonrpc_batch is called directly with n calls; call i has params i. An
\* empty list is returned at once, without a POST.
CallRunBatch ==
    \E n \in 0..MaxCalls :
        /\ pc = "idle"
        /\ op' = "run_batch"
        /\ IF n = 0
           THEN /\ pc' = "done"
                /\ ret' = ListVal(<<>>)
                /\ batch' = <<>>
                /\ part' = 0
                /\ complete' = <<>>
                /\ posts' = <<>>
                /\ received' = <<>>
                /\ requests' = requests
                /\ expansions' = expansions
                /\ caller' = "run_batch"
           ELSE /\ StartBatch([i \in 1..n |-> i], "run_batch")
                /\ ret' = ret
        /\ UNCHANGED <<apivars, post_failed, parent_com, failing, root_id, root_resp, index_tree, stack,
                       parents, nodes, mstack, current, err, run, prev_tree>>

\* The last chunk of a direct jsonrpc_batch call is answered: return complete.
RunBatchReturn ==
    \E outcome \in Answered :
        /\ pc = "batch"
        /\ caller = "run_batch"
        /\ LastChunk
        /\ complete' = complete \o Contribution(outcome)
        /\ ret' = ListVal(complete')
        /\ pc' = "done"
        /\ Answers(outcome)
        /\ UNCHANGED <<apivars, expansions, parent_com, failing, op, caller, root_id, root_resp,
                       index_tree, stack, parents, nodes, mstack, current, batch,
                       part, posts, requests, err, run, prev_tree>>

RECURSIVE TreeOf(_, _)
\* The nested tree below the comment dict at address a.
TreeOf(nd, a) ==
    [id |-> nd[a].comment_index,
     has_replies |-> nd[a].has_replies,
     replies |-> [i \in 1..Len(nd[a].replies) |-> TreeOf(nd, nd[a].replies[i])]]

Returned ==
    IF ret.t = "tree" THEN [t |-> "tree-nested", tree |-> TreeOf(nodes, ret.root)]
    ELSE ret

\* build_tree is called a second time for the same root_id; the server's
\* state is as it was.
CallBuildTreeAgain ==
    /\ pc = "done"
    /\ op = "build_tree"
    /\ run = 1
    /\ run' = 2
    /\ prev_tree' = Returned
    /\ pc' = "get_comment"
    /\ root_resp' = NoResp
    /\ index_tree' = EmptyDict
    /\ stack' = <<>>
    /\ parents' = <<>>
    /\ nodes' = <<>>
    /\ mstack' = <<>>
    /\ current' = 0
    /\ ret' = NoRet
    /\ batch' = <<>>
    /\ part' = 0
    /\ complete' = <<>>
    /\ caller' = "none"
    /\ posts' = <<>>
    /\ received' = <<>>
    /\ requests' = 1
    /\ expansions' = [id \in RootIds |-> 0]
    /\ UNCHANGED <<apivars, parent_com, failing, op, root_id, err, post_failed>>

Next ==
    \/ CallBuildTree
    \/ GetCommentFails
    \/ GetCommentResponse
    \/ BatchFails
    \/ CreateIndexTreeStep
    \/ PopulateStep

\* build_tree against a server holding comments.
Spec == Init /\ [][Next]_vars

\* build_tree, and build_tree once more when it has returned.
TwiceNext == Next \/ CallBuildTreeAgain
TwiceSpec == Init /\ [][TwiceNext]_vars

\* Every POST is answered or fails in the end, and the event loop then
\* resumes the build that awaits it.
FairSpec == Spec /\ WF_vars(Next)

BatchNext ==
    \/ CallRunBatch
    \/ BatchNextChunk
    \/ BatchFails
    \/ RunBatchReturn

\* jsonrpc_batch called directly with lists of up to MaxCalls calls.
BatchSpec == BatchInit /\ [][BatchNext]_vars

\* ------------------------------------------------------- metadata transport
Return(v) == [t |-> "returned", value |-> v]
Throw(kind) == [t |-> "raised", kind |-> kind]

\* MetadataClient._make_request_body: the envelope carries the class counter.
make_request_body(method, params) ==
    [jsonrpc |-> "2.0", id |-> request_id, method |-> method, params |-> params]

\* What the server may put in the "error" member.
ErrorCodes == {-32603, -32602, -1, 1, -32601}
ErrorObjects ==
    {[code |-> c] : c \in ErrorCodes}
        \cup {[code |-> c, message |-> StrVal("failed")] : c \in ErrorCodes}

\* Raw records as the server sends them, decoded.
RawClaim(uri) ==
    [claim_index |-> 1, lbry_perm_uri |-> uri, add_time |-> 5, upvotes |-> 2,
     downvotes |-> 1]
RawCommentBase(id) ==
    [comm_index |-> id, claim_index |-> 1, poster_name |-> "poster",
     post_time |-> 3, message |-> "body", upvotes |-> 0, downvotes |-> 0]
ApiCommentIds == {0, 1}
RawComments(id) ==
    {RawCommentBase(id)}
        \cup {RawCommentBase(id) @@ [parent_com |-> x] :
                 x \in {NoneRet} \cup {IntVal(j) : j \in ApiCommentIds}}

\* The "result" member the server may answer a method with.
Results(method, params) ==
    CASE method = "get_claim_data" -> {NoneRet, RawClaim(params.uri)}
      [] method = "get_comment_data" -> {NoneRet} \cup RawComments(params.comm_index)
      [] method \in {"comment", "reply"} -> {NoneRet, IntVal(1)}
      [] OTHER -> {StrVal("pong")}

\* How the POST of one envelope may end: no connection, a status of 400 or
\* above, or a decoded response object that echoes the envelope's id.
Statuses == {200, 404, 500}
Responses(envelope) ==
    {[id |-> envelope.id, key |-> "result", value |-> v] :
         v \in Results(envelope.method, envelope.params)}
        \cup {[id |-> envelope.id, key |-> "error", value |-> e] : e \in ErrorObjects}
Transports(envelope) ==
    {[t |-> "conn_error", status |-> 0, response |-> NoResp]}
        \cup {[t |-> "http", status |-> st, response |-> NoResp] :
                 st \in {x \in Statuses : ~(x < 400)}}
        \cup {[t |-> "http", status |-> 200, response |-> r] : r \in Responses(envelope)}

\* make_request after the POST: None when the connection failed, an HTTP
\* error raised when the status is not below 400, the decoded body otherwise.
\* (MetadataClient reads self.session, which its __init__ does not set; the
\* session is taken as given here, as comment_server.py's copy of the method
\* does with requests.Session().)
make_request(transport) ==
    IF transport.t = "conn_error" THEN Return(NoneRet)
    ELSE IF ~(transport.status < 400)
         THEN [t |-> "raised", kind |-> "HttpProcessingError",
               code |-> transport.status]
         ELSE Return(transport.response)

\* exceptions.py
MetadataExceptionsNoUnknown ==
    (-32603 :> "InternalMetadataServerError")
        @@ (-32602 :> "InvalidParamsError")
        @@ (1 :> "InvalidClaimUriError")
MetadataExceptions ==
    (-32603 :> "InternalMetadataServerError")
        @@ (-32602 :> "InvalidParamsError")
        @@ (-1 :> "UnknownMetadataServerError")
        @@ (1 :> "InvalidClaimUriError")
MetadataServerException(kind, result) ==
    [t |-> "raised", kind |-> kind, request_id |-> result.id,
     code |-> result.value.code,
     message |-> IF "message" \in DOMAIN result.value
                 THEN result.value.message ELSE NoneRet]

\* ---------------------------------------------------------- ClaimMetadataAPI
\* _call_api, the uri check
with_schemeAlways(params) ==
    IF "uri" \in DOMAIN params
    THEN [params EXCEPT !.uri = Scheme \o @]
    ELSE params
with_scheme(params) ==
    IF "uri" \in DOMAIN params /\ ~startswith(params.uri, Scheme)
    THEN [params EXCEPT !.uri = Scheme \o @]
    ELSE params

\* _call_api, from make_request's outcome to the end of the call
call_api(made) ==
    IF made.t = "raised" THEN Return(NoneRet)
    ELSE IF made.value = NoneRet THEN Throw("TypeError")
    ELSE IF made.value.key = "error"
         THEN MetadataServerException(
                  Get(MetadataExceptions, made.value.value.code, "GenericServerError"),
                  made.value)
         ELSE Return(made.value.value)

ClaimMetadata_from_response(claim_data) ==
    IF claim_data = NoneRet THEN NoneRet
    ELSE [t |-> "ClaimMetadata",
          claim_index |-> claim_data.claim_index,
          permanent_uri |-> claim_data.lbry_perm_uri,
          time_created |-> claim_data.add_time,
          upvotes |-> claim_data.upvotes,
          downvotes |-> claim_data.downvotes]

Comment_from_responseFalsyParent(comment_data) ==
    IF comment_data = NoneRet THEN NoneRet
    ELSE [t |-> "Comment",
          id |-> comment_data.comm_index,
          claim_index |-> comment_data.claim_index,
          author |-> comment_data.poster_name,
          parent_index |-> IF Get(comment_data, "parent_com", NoneRet) = IntVal(0)
                           THEN NoneRet
                           ELSE Get(comment_data, "parent_com", NoneRet),
          time_created |-> comment_data.post_time,
          body |-> comment_data.message,
          upvotes |-> comment_data.upvotes,
          downvotes |-> comment_data.downvotes]
Comment_from_response(comment_data) ==
    IF comment_data = NoneRet THEN NoneRet
    ELSE [t |-> "Comment",
          id |-> comment_data.comm_index,
          claim_index |-> comment_data.claim_index,
          author |-> comment_data.poster_name,
          parent_index |-> Get(comment_data, "parent_com", NoneRet),
          time_created |-> comment_data.post_time,
          body |-> comment_data.message,
          upvotes |-> comment_data.upvotes,
          downvotes |-> comment_data.downvotes]

\* --------------------------------------------------------------- CommentsAPI
\* _call_api: params['message'] = params['message'].strip()
strip_message(params) ==
    IF "message" \in DOMAIN params
    THEN [params EXCEPT !.message = strip(@)]
    ELSE params

\* _call_api: if not 1 < len(params['message']) < 65536: raise ValueError
ValidationInclusive(params) ==
    IF "message" \in DOMAIN params
       /\ ~(1 < len(params.message) /\ len(params.message) <= MessageLimit)
    THEN "ValueError" ELSE "ok"
Validation(params) ==
    IF "message" \in DOMAIN params
       /\ ~(1 < len(params.message) /\ len(params.message) < MessageLimit)
    THEN "ValueError" ELSE "ok"

\* The raise comes before the call of super()._call_api.
FailsLate(verdict) == FALSE
FailsFast(verdict) == verdict = "ValueError"

\* The username setter: what it raises and what _username holds afterwards.
username_setterStoresFirst(new_name) ==
    IF ~(2 <= len(strip(new_name)) /\ len(strip(new_name)) < UsernameLimit)
    THEN [raised |-> TRUE, stored |-> strip(new_name)]
    ELSE [raised |-> FALSE, stored |-> strip(new_name)]
username_setter(new_name) ==
    IF ~(2 <= len(strip(new_name)) /\ len(strip(new_name)) < UsernameLimit)
    THEN [raised |-> TRUE, stored |-> username]
    ELSE [raised |-> FALSE, stored |-> strip(new_name)]

\* Everything the metadata API does not touch, the concurrent tasks
\* included.
TreeUnchanged ==
    UNCHANGED <<parent_com, failing, pc, op, caller, root_id, root_resp,
                index_tree, stack, parents, nodes, mstack, current, batch,
                part, complete, posts, received, post_failed, ret, err, run,
                prev_tree, expansions, sessions, envelopes, migvars>>

\* An envelope with this id has been created by this client.
Created(id, client) ==
    /\ last_id' = id
    /\ highest_id' = IF last_id > highest_id THEN last_id ELSE highest_id
    /\ creators' = creators \cup {client}

\* The API object awaits the answer to a POST.
Awaiting == api_result.t = "awaiting"

\* CommentsAPI._call_api down to ClaimMetadataAPI._call_api and
\* MetadataClient.make_request, up to the POST.
CallApi(cal, method, params) ==
    LET stripped == strip_message(params)
        verdict == Validation(stripped)
    IN  /\ api_call' = cal
        /\ IF FailsFast(verdict)
           THEN /\ api_result' = Throw("ValueError")
                /\ request_body' = NoBody
                /\ requests' = 0
                /\ UNCHANGED <<request_id, last_id, highest_id, creators>>
           ELSE /\ request_id < MaxSent
                /\ request_body' = make_request_body(method, with_scheme(stripped))
                /\ request_id' = request_id + 1
                /\ Created(request_body'.id, "MetadataClient")
                /\ requests' = 1
                /\ api_result' = [t |-> "awaiting", verdict |-> verdict]

\* What the API method does with the value _call_api returned.
After(method, value) ==
    CASE method = "get_claim" -> ClaimMetadata_from_response(value)
      [] method = "get_comment" ->
            IF value = NoneRet THEN NoneRet ELSE Comment_from_response(value)
      [] OTHER -> value

\* ClaimMetadataAPI.get_claim
GetClaim ==
    \E uri \in Uris :
        /\ ~Awaiting
        /\ CallApi([NoCall EXCEPT !.op = "get_claim", !.uri = uri],
                   "get_claim_data", [uri |-> uri])
        /\ UNCHANGED <<manager_request_id, username>>
        /\ TreeUnchanged

\* CommentsAPI.make_comment
MakeComment ==
    \E uri \in Uris, message \in Messages :
        /\ ~Awaiting
        /\ CallApi([NoCall EXCEPT !.op = "make_comment", !.uri = uri,
                                  !.message = message],
                   "comment",
                   [uri |-> uri, poster |-> username, message |-> message])
        /\ UNCHANGED <<manager_request_id, username>>
        /\ TreeUnchanged

\* CommentsAPI.reply
Reply ==
    \E comment_id \in ApiCommentIds, message \in Messages :
        /\ ~Awaiting
        /\ CallApi([NoCall EXCEPT !.op = "reply", !.comment_id = comment_id,
                                  !.message = message],
                   "reply",
                   [parent_id |-> comment_id, poster |-> username,
                    message |-> message])
        /\ UNCHANGED <<manager_request_id, username>>
        /\ TreeUnchanged

\* CommentsAPI.get_comment
GetCommentApi ==
    \E comment_id \in ApiCommentIds :
        /\ ~Awaiting
        /\ CallApi([NoCall EXCEPT !.op = "get_comment", !.comment_id = comment_id],
                   "get_comment_data", [comm_index |-> comment_id])
        /\ UNCHANGED <<manager_request_id, username>>
        /\ TreeUnchanged

\* The POST of the awaiting call ends: make_request returns or raises, and
\* _call_api and the API method run to their end.
ApiResponse ==
    /\ Awaiting
    /\ \E transport \in Transports(request_body) :
        /\ api_call' = [api_call EXCEPT !.transport = transport]
        /\ api_result' =
             IF api_result.verdict = "ValueError" THEN Throw("ValueError")
             ELSE LET ended == call_api(make_request(transport))
                  IN IF ended.t = "returned"
                     THEN Return(After(api_call.op, ended.value))
                     ELSE ended
    /\ UNCHANGED <<request_id, manager_request_id, username, request_body,
                   last_id, highest_id, creators, requests>>
    /\ TreeUnchanged

\* api.username = name
SetUsername ==
    \E name \in Usernames :
        LET set == username_setter(name)
        IN  /\ ~Awaiting
            /\ api_call' = [NoCall EXCEPT !.op = "set_username", !.name = name]
            /\ username' = set.stored
            /\ api_result' = IF set.raised THEN Throw("ValueError")
                             ELSE Return(NoneRet)
            /\ request_body' = NoBody
            /\ requests' = 0
            /\ UNCHANGED <<request_id, manager_request_id, last_id, highest_id,
                           creators>>
            /\ TreeUnchanged

ApiInit ==
    /\ parent_com = [c \in Ids |-> {}]
    /\ failing = {}
    /\ Idle
    /\ ApiIdle
    /\ NoMigration

ApiNext ==
    \/ GetClaim
    \/ MakeComment
    \/ Reply
    \/ GetCommentApi
    \/ ApiResponse
    \/ SetUsername

\* One CommentsAPI object used for any sequence of calls.
ApiSpec == ApiInit /\ [][ApiNext]_vars

\* ------------------------------------------------------------- request ids
\* ClaimMetadataAPI.ping, by any API object of the process
Ping ==
    \E i \in 1..MaxInstances :
        /\ ~Awaiting
        /\ CallApi([NoCall EXCEPT !.op = "ping", !.instance = i], "ping",
                   EmptyDict)
        /\ UNCHANGED <<manager_request_id, username>>
        /\ TreeUnchanged

\* comment_manager.MetadataServer._make_request('status') on instance i: the
\* request_id property adds one to the instance's _request_id and returns it.
ManagerMakeRequest ==
    \E i \in 1..MaxInstances :
        /\ ~Awaiting
        /\ manager_request_id[i] < MaxSent
        /\ LET id == manager_request_id[i] + 1
               envelope == [jsonrpc |-> "2.0", method |-> "status", id |-> id]
           IN \E transport \in
                    {[t |-> "http", status |-> st, response |-> NoResp] :
                         st \in Statuses \ {200}}
                    \cup {[t |-> "http", status |-> 200,
                           response |-> [id |-> id, key |-> "result",
                                         value |-> StrVal("ok")]]} :
                /\ manager_request_id' = [manager_request_id EXCEPT ![i] = id]
                /\ request_body' = envelope
                /\ Created(id, "MetadataServer")
                /\ api_call' = [NoCall EXCEPT !.op = "_make_request",
                                              !.instance = i,
                                              !.transport = transport]
                /\ api_result' =
                     IF transport.status # 200
                     THEN Return([key |-> "error",
                                  value |-> [status_code |-> transport.status]])
                     ELSE Return(transport.response)
                /\ requests' = 1
                /\ UNCHANGED <<request_id, username>>
                /\ TreeUnchanged

\* comment_client.get_comment(url, idx): jsonrpc_post builds its envelope with
\* the id 1.
PostGetComment ==
    \E idx \in RootIds, answered \in BOOLEAN :
        LET envelope == [jsonrpc |-> "2.0", id |-> 1, method |-> "get_comment_data",
                         params |-> [comm_index |-> idx, better_keys |-> TRUE]]
            posted == jsonrpc_post(Answer("get_comment_data", idx))
        IN  /\ ~Awaiting
            /\ request_body' = envelope
            /\ Created(envelope.id, "jsonrpc_post")
            /\ api_call' = [NoCall EXCEPT !.op = "jsonrpc_post", !.comment_id = idx]
            /\ api_result' = IF ~answered THEN Throw("ClientConnectionError")
                             ELSE IF posted.raised THEN Throw("Exception")
                             ELSE Return(posted.value)
            /\ requests' = 1
            /\ UNCHANGED <<request_id, manager_request_id, username>>
            /\ TreeUnchanged

IdNext ==
    \/ Ping
    \/ ApiResponse
    \/ ManagerMakeRequest
    \/ PostGetComment

\* Requests made by the three clients of one process.
IdSpec == ApiInit /\ [][IdNext]_vars

\* ------------------------------------------------------ concurrent sessions
\* Tasks of one event loop, each calling make_request on a MetadataClient of
\* its own. A task runs from one await to the next without interruption;
\* make_request awaits first at session.post (line 110).
IncrementedAfterPost(segment) == segment = "after_post"
\* The segment of make_request in which cls.__request_id += 1 runs:
\* _make_request_body is a plain method called at line 105, before the
\* first await.
IncrementedIn(segment) == segment = "before_post"

\* cls.__request_id when the task has run the segment.
CounterAfter(segment) ==
    IF IncrementedIn(segment) THEN request_id + 1 ELSE request_id

\* A task calls make_request('status'): lines 104-110 up to the await.
SessionMakeRequest ==
    \E s \in Sessions :
        /\ sessions[s].pc = "idle"
        /\ Len(envelopes) < MaxEnvelopes
        /\ LET body == make_request_body("status", EmptyDict)
           IN /\ sessions' = [sessions EXCEPT ![s].pc = "awaiting",
                                              ![s].body = body,
                                              ![s].result = NoRet]
              /\ envelopes' = Append(envelopes, [session |-> s, id |-> body.id])
              /\ request_body' = body
              /\ Created(body.id, "MetadataClient")
        /\ request_id' = CounterAfter("before_post")
        /\ UNCHANGED <<manager_request_id, username, api_call, api_result, requests>>
        /\ UNCHANGED <<parent_com, failing, pc, op, caller, root_id, root_resp,
                       index_tree, stack, parents, nodes, mstack, current, batch,
                       part, complete, posts, received, post_failed, ret, err,
                       run, prev_tree, expansions, migvars>>

\* The POST a task awaits has ended: lines 111-127.
SessionResume ==
    \E s \in Sessions :
        /\ sessions[s].pc = "awaiting"
        /\ \E transport \in Transports(sessions[s].body) :
              sessions' = [sessions EXCEPT
                              ![s].pc = "idle",
                              ![s].is_connected =
                                  IF transport.t = "conn_error" THEN "False"
                                  ELSE "True",
                              ![s].result = make_request(transport)]
        /\ request_id' = CounterAfter("after_post")
        /\ UNCHANGED <<manager_request_id, username, api_call, api_result, requests,
                       request_body, last_id, highest_id, creators, envelopes>>
        /\ UNCHANGED <<parent_com, failing, pc, op, caller, root_id, root_resp,
                       index_tree, stack, parents, nodes, mstack, current, batch,
                       part, complete, posts, received, post_failed, ret, err,
                       run, prev_tree, expansions, migvars>>

SessionNext ==
    \/ SessionMakeRequest
    \/ SessionResume

\* Any interleaving of the tasks at their suspension points.
SessionSpec == ApiInit /\ [][SessionNext]_vars

\* ------------------------------------------------- migrator/migrate11to12
\* ---- bounds
\* Stream hashes of the rows of `file`, clock values, runs of do_migration.
MaxFiles == 2
MaxClock == 2
MaxMigrations == 2

\* The columns of `file` at revision 11, and of NEW_FILE (lines 26-33).
BaseColumns ==
    <<"stream_hash", "file_name", "download_directory", "blob_data_rate",
      "status", "saved_file", "content_fee">>
NewFileColumns == BaseColumns \o <<"added_at">>

\* A row of `file` at revision 11: its values in column order (the stream
\* hash, then the other six columns).
BaseRow(h) == <<h, 0, 0, 0, 0, 1, 0>>

\* The databases do_migration may find: `file` at revision 11, or `file`
\* with an added_at column whose values are some earlier clock readings.
Databases ==
    {[t \in {"file"} |->
         [columns |-> BaseColumns, rows |-> {BaseRow(h) : h \in S}]] :
        S \in SUBSET (1..MaxFiles)}
    \cup
    UNION {{[t \in {"file"} |->
                [columns |-> NewFileColumns,
                 rows |-> {Append(BaseRow(h), at[h]) : h \in S}]] :
              at \in [S -> 0..MaxClock]} :
           S \in SUBSET (1..MaxFiles)}

Contains(seq, x) == \E i \in DOMAIN seq : seq[i] = x
Without(db, name) == [n \in (DOMAIN db) \ {name} |-> db[n]]

\* pragma table_info('file'): the column names, none for a missing table.
table_info(db, name) == IF name \in DOMAIN db THEN db[name].columns ELSE <<>>

\* sqlite3.connect: the connection's view of the database, what is
\* committed to the file, and the exception that left do_migration.
Connect(db) ==
    [db |-> db, committed |-> db, in_transaction |-> FALSE, raised |-> "none"]

\* A schema statement is written at once unless a transaction is open.
Write(st, db) ==
    IF st.in_transaction THEN [st EXCEPT !.db = db]
    ELSE [st EXCEPT !.db = db, !.committed = db]
Fail(st, kind) == [st EXCEPT !.raised = kind]

\* One SQL statement run by SQLite.
Apply(st, stmt) ==
    CASE stmt.kind = "pragma" -> st
      [] stmt.kind = "drop_if_exists" -> Write(st, Without(st.db, stmt.table))
      [] stmt.kind = "create_if_not_exists" ->
            IF stmt.table \in DOMAIN st.db THEN st
            ELSE Write(st, Put(st.db, stmt.table,
                               [columns |-> stmt.columns, rows |-> {}]))
      [] stmt.kind = "insert_select_now" ->
            IF stmt.from \notin DOMAIN st.db \/ stmt.table \notin DOMAIN st.db
            THEN Fail(st, "OperationalError")
            ELSE IF Len(st.db[stmt.from].columns) + 1 # Len(st.db[stmt.table].columns)
            THEN Fail(st, "OperationalError")
            ELSE [st EXCEPT
                    !.in_transaction = TRUE,
                    !.db = Put(st.db, stmt.table,
                               [columns |-> st.db[stmt.table].columns,
                                rows |-> st.db[stmt.table].rows \cup
                                         {Append(r, stmt.now) :
                                              r \in st.db[stmt.from].rows}])]
      [] stmt.kind = "drop" ->
            IF stmt.table \notin DOMAIN st.db THEN Fail(st, "OperationalError")
            ELSE Write(st, Without(st.db, stmt.table))
      [] stmt.kind = "rename" ->
            IF stmt.table \notin DOMAIN st.db \/ stmt.to \in DOMAIN st.db
            THEN Fail(st, "OperationalError")
            ELSE Write(st, Put(Without(st.db, stmt.table), stmt.to,
                               st.db[stmt.table]))

\* What cursor.execute raises for a string of more than one statement:
\* sqlite3.Warning, or sqlite3.ProgrammingError on newer interpreters.
MultiStatementErrors == {"Warning", "ProgrammingError"}

\* cursor.execute(sql): one statement only.
execute(st, script, multi) ==
    IF st.raised # "none" THEN st
    ELSE IF Len(script) > 1 THEN Fail(st, multi)
    ELSE Apply(st, script[1])

\* connection.commit()
commit(st) ==
    IF st.raised # "none" THEN st
    ELSE [st EXCEPT !.committed = st.db, !.in_transaction = FALSE]

already_migratedNever(current_columns) == FALSE
\* if 'added_at' in current_columns
already_migrated(current_columns) == Contains(current_columns, "added_at")

\* do_migration(conf) on the database db at clock reading clock: the
\* database as committed when the function is left, and how it was left.
do_migration(db, clock, multi) ==
    LET connection == Connect(db)
        current_columns == table_info(db, "file")
    IN IF already_migrated(current_columns)
       THEN [database |-> db, raised |-> "none", printed |-> "already migrated"]
       ELSE LET s21 == execute(connection, <<[kind |-> "pragma"]>>, multi)
                s24 == execute(s21,
                               <<[kind |-> "drop_if_exists", table |-> "NEW_FILE"],
                                 [kind |-> "create_if_not_exists",
                                  table |-> "NEW_FILE",
                                  columns |-> NewFileColumns]>>, multi)
                s41 == execute(s24, <<[kind |-> "insert_select_now",
                                       table |-> "NEW_FILE", from |-> "file",
                                       now |-> clock]>>, multi)
                s48 == execute(s41, <<[kind |-> "drop", table |-> "file"]>>, multi)
                s51 == execute(s48, <<[kind |-> "rename", table |-> "NEW_FILE",
                                       to |-> "file"]>>, multi)
                s56 == execute(s51, <<[kind |-> "pragma"]>>, multi)
                s59 == commit(s56)
                s62 == execute(s59, <<[kind |-> "pragma"]>>, multi)
            IN [database |-> s62.committed, raised |-> s62.raised,
                printed |-> "nothing"]

\* do_migration(conf) is run on the database.
DoMigration ==
    \E multi \in MultiStatementErrors :
        /\ migrations < MaxMigrations
        /\ LET left == do_migration(database, now, multi)
           IN /\ database' = left.database
              /\ migration' = [raised |-> left.raised, printed |-> left.printed]
        /\ migrations' = migrations + 1
        /\ now' = now
        /\ UNCHANGED <<request_id, manager_request_id, username, request_body,
                       last_id, highest_id, creators, api_call, api_result,
                       sessions, envelopes, requests>>
        /\ UNCHANGED <<parent_com, failing, pc, op, caller, root_id, root_resp,
                       index_tree, stack, parents, nodes, mstack, current, batch,
                       part, complete, posts, received, post_failed, ret, err,
                       run, prev_tree, expansions>>

\* Time passes between runs.
Tick ==
    /\ now < MaxClock
    /\ now' = now + 1
    /\ UNCHANGED <<database, migration, migrations>>
    /\ UNCHANGED <<request_id, manager_request_id, username, request_body,
                   last_id, highest_id, creators, api_call, api_result,
                   sessions, envelopes, requests>>
    /\ UNCHANGED <<parent_com, failing, pc, op, caller, root_id, root_resp,
                   index_tree, stack, parents, nodes, mstack, current, batch,
                   part, complete, posts, received, post_failed, ret, err,
                   run, prev_tree, expansions>>

MigrationInit ==
    /\ parent_com = [c \in Ids |-> {}]
    /\ failing = {}
    /\ Idle
    /\ ApiIdle
    /\ database \in Databases
    /\ now = 0
    /\ migration = NoRet
    /\ migrations = 0

MigrationNext ==
    \/ DoMigration
    \/ Tick

\* do_migration run up to MaxMigrations times on one database file.
MigrationSpec == MigrationInit /\ [][MigrationNext]_vars

\* ------------------------------------------------------------ properties
RECURSIVE TreeAddrs(_, _)
\* The addresses of the comment dicts of the tree below address a.
TreeAddrs(nd, a) ==
    {a} \cup UNION {TreeAddrs(nd, nd[a].replies[i]) : i \in 1..Len(nd[a].replies)}

RECURSIVE IdsOf(_, _, _)
\* The comment ids of the tree below address a, from reply i of a on, in
\* preorder.
IdsOf(nd, a, i) ==
    IF i = 0 THEN <<nd[a].comment_index>> \o IdsOf(nd, a, 1)
    ELSE IF i > Len(nd[a].replies) THEN <<>>
    ELSE IdsOf(nd, nd[a].replies[i], 0) \o IdsOf(nd, a, i + 1)

ReplyIds(nd, a) == [i \in 1..Len(nd[a].replies) |-> nd[nd[a].replies[i]].comment_index]

RECURSIVE EdgesOf(_)
\* The (parent id, reply id) pairs of a nested tree.
EdgesOf(tree) ==
    UNION {{<<tree.id, tree.replies[i].id>>} \cup EdgesOf(tree.replies[i]) :
           i \in 1..Len(tree.replies)}

\* Ids and nesting of a value build_tree returned.
Structure(v) ==
    IF v.t # "tree-nested" THEN v
    ELSE [t |-> "structure", root |-> v.tree.id, edges |-> EdgesOf(v.tree)]

NullResult == [key |-> "result", value |-> Null]
GotRoot == root_resp.key = "result" /\ root_resp.value # Null
TreeReturned == op = "build_tree" /\ pc = "done" /\ ret.t = "tree"
\* Every POST so far was answered with a 2xx status.
AllAnswered == ~post_failed

\* C1: for an acyclic reply graph and an existing root_id, the tree build_tree
\* returns (every request answered) is rooted at root_id and every node with
\* replies on the server carries exactly the server's reply list of that
\* node, in the server's order.
BuildTreeMatchesServer ==
    (TreeReturned /\ AllAnswered /\ AcyclicFrom(root_id)) =>
        /\ nodes[ret.root].comment_index = root_id
        /\ \A a \in TreeAddrs(nodes, ret.root) :
              Replies(nodes[a].comment_index) # <<>> =>
                  /\ nodes[a].has_replies
                  /\ ReplyIds(nodes, a) = Replies(nodes[a].comment_index)

BuildTreeTerminates ==
    (op = "build_tree" /\ AcyclicFrom(root_id)) ~>
        /\ requests <= 2 * MaxComments
        /\ pc = "raised" \/ (pc = "done" /\ stack = <<>> /\ mstack = <<>>)

BuildTreeTerminatesWitness ==
    /\ TreeReturned
    /\ AcyclicFrom(root_id)
    /\ stack = <<>> /\ mstack = <<>>
    /\ \E a \in DOMAIN nodes : a # ret.root /\ nodes[a].replies # <<>>

\* C4: in a tree returned for an acyclic reply graph no comment id appears
\* in more than one node.
NoIdTwiceInTree ==
    (TreeReturned /\ AcyclicFrom(root_id)) =>
        LET ids == IdsOf(nodes, ret.root, 0)
        IN \A i, j \in DOMAIN ids : ids[i] = ids[j] => i = j

NoIdTwiceWitness ==
    /\ TreeReturned
    /\ AcyclicFrom(root_id)
    /\ Len(IdsOf(nodes, ret.root, 0)) = MaxComments

\* C5: when a request of discovery or materialization meets a transport or
\* protocol error, build_tree raises and no comment dict has had replies
\* attached.
ErrorLeavesNoPartialTree ==
    (op = "build_tree" /\ GotRoot /\ post_failed) =>
        /\ pc = "raised"
        /\ \A a \in DOMAIN nodes : ~nodes[a].has_replies

\* C6: build_tree run twice for one root_id against an unchanged server
\* (every request answered) returns trees with the same ids and the same
\* nesting.
SameTreeTwice ==
    (op = "build_tree" /\ run = 2 /\ pc = "done" /\ AllAnswered
        /\ prev_tree.t = "tree-nested") =>
        Structure(Returned) = Structure(prev_tree)

\* C7: when every POST is answered with a JSON-RPC batch response,
\* jsonrpc_batch returns one entry per call and entry i is the server's
\* answer to call i.
BatchAlignedWithCalls ==
    (op = "run_batch" /\ pc = "done" /\ AllAnswered) =>
        /\ Len(ret.v) = Len(batch)
        /\ \A i \in DOMAIN batch :
              Answer("echo", batch[i]).key = "result" =>
                  ret.v[i] = Answer("echo", batch[i]).value

RECURSIVE PostedParams(_, _)
\* The params of the requests of the POSTs from the k-th on, in order.
PostedParams(ps, k) ==
    IF k > Len(ps) THEN <<>>
    ELSE [i \in 1..Len(ps[k]) |-> ps[k][i].params] \o PostedParams(ps, k + 1)

\* C8: jsonrpc_batch POSTs the calls in consecutive chunks of at most 50, in
\* call order, and has issued ceil(len(calls)/50) POSTs when it returns
\* (none for an empty list).
ChunksOfFifty ==
    op = "run_batch" =>
        /\ \A k \in DOMAIN posts : Len(posts[k]) \in 1..50
        /\ PostedParams(posts, 1) = SubSeq(batch, 1, Len(PostedParams(posts, 1)))
        /\ pc = "done" =>
              /\ Len(posts) = (Len(batch) + 49) \div 50
              /\ PostedParams(posts, 1) = batch

ChunksOfFiftyWitness ==
    op = "run_batch" /\ pc = "done" /\ Len(posts) = 3 /\ Len(Last(posts)) = 1

\* C9: jsonrpc_batch returns one entry per decoded response object, in
\* arrival order: its result, or None where the object carries an error.
ErrorEntriesBecomeNone ==
    (op = "run_batch" /\ pc = "done") =>
        ret.v = [j \in 1..Len(received) |->
                    IF received[j].key = "error" THEN Null ELSE received[j].value]

\* C10: when the POST of a chunk meets a connection failure or a non-2xx
\* status, the jsonrpc_batch call raises and returns no results.
FailedChunkFailsCall ==
    (op = "run_batch" /\ post_failed) => (pc = "raised" /\ ret = NoRet)

\* ------------------------------------------------- properties, metadata API
ApiMethods == {"get_claim", "make_comment", "reply", "get_comment", "ping"}
\* The last call was an API method whose POST has ended.
Ended == api_call.op \in ApiMethods /\ api_call.transport.t # "none"
\* ... with a decoded response object carrying this member.
Decoded(key) ==
    /\ Ended
    /\ api_call.transport.t = "http"
    /\ api_call.transport.status \in 200..299
    /\ api_call.transport.response.key = key

\* C11: when the server answers with a status outside 2xx, the API operation
\* raises an error that carries the status code; it returns no value.
HttpErrorRaises ==
    (Ended /\ api_call.transport.t = "http"
           /\ api_call.transport.status \notin 200..299)
        => (/\ api_result.t = "raised"
            /\ api_result.kind = "HttpProcessingError"
            /\ api_result.code = api_call.transport.status)

\* C12: when the connection cannot be established, the API operation ends by
\* raising a connection error, not by returning a value and not by raising an
\* error of another kind.
TransportErrors == {"ClientConnectionError", "ConnectionError"}
ConnectionFailureRaisesTransportError ==
    (Ended /\ api_call.transport.t = "conn_error")
        => (api_result.t = "raised" /\ api_result.kind \in TransportErrors)

\* C13: a decoded response with an `error` member makes the API call raise the
\* exception its code selects (-32603, -32602, -1, 1, generic otherwise),
\* carrying the response's id, the code, and the message or None.
RpcErrorKind(code) ==
    CASE code = -32603 -> "InternalMetadataServerError"
      [] code = -32602 -> "InvalidParamsError"
      [] code = -1 -> "UnknownMetadataServerError"
      [] code = 1 -> "InvalidClaimUriError"
      [] OTHER -> "GenericServerError"
ErrorResponseRaisesByCode ==
    Decoded("error")
        => LET response == api_call.transport.response
           IN /\ api_result.t = "raised"
              /\ api_result.kind = RpcErrorKind(response.value.code)
              /\ api_result.request_id = response.id
              /\ api_result.code = response.value.code
              /\ api_result.message =
                   (IF "message" \in DOMAIN response.value
                    THEN response.value.message ELSE NoneRet)
ErrorResponseWitness ==
    /\ Decoded("error")
    /\ api_call.transport.response.value = [code |-> -1]
    /\ api_result.t = "raised"
    /\ api_result.kind = "UnknownMetadataServerError"
    /\ api_result.message = NoneRet

\* C14: when get_claim_data answers null, get_claim returns the sentinel
\* ClaimMetadata: claim_index -1, the requested uri, zero time and votes.
NullClaimGivesSentinel ==
    (Decoded("result") /\ api_call.op = "get_claim"
                       /\ api_call.transport.response.value = NoneRet)
        => (/\ api_result.t = "returned"
            /\ api_result.value # NoneRet
            /\ api_result.value.claim_index = -1
            /\ api_result.value.permanent_uri \in
                   {api_call.uri, Scheme \o api_call.uri}
            /\ api_result.value.time_created = 0
            /\ api_result.value.upvotes = 0
            /\ api_result.value.downvotes = 0)

\* C15: the Comment made from a raw record has the record's comm_index as its
\* id, and no parent_index exactly when parent_com is null or missing; a
\* parent_com of 0 gives parent_index 0.
GotRawComment ==
    /\ Decoded("result")
    /\ api_call.op = "get_comment"
    /\ api_call.transport.response.value # NoneRet
CommentKeepsIdAndParent ==
    GotRawComment
        => LET raw == api_call.transport.response.value
               comment == api_result.value
           IN /\ api_result.t = "returned"
              /\ comment.id = raw.comm_index
              /\ (comment.parent_index = NoneRet)
                     <=> ("parent_com" \notin DOMAIN raw \/ raw.parent_com = NoneRet)
              /\ ("parent_com" \in DOMAIN raw /\ raw.parent_com = IntVal(0))
                     => comment.parent_index = IntVal(0)
CommentParentZeroWitness ==
    /\ GotRawComment
    /\ "parent_com" \in DOMAIN api_call.transport.response.value
    /\ api_call.transport.response.value.parent_com = IntVal(0)
    /\ api_result.value.parent_index = IntVal(0)

\* C16: make_comment and reply reject the message with a ValueError exactly
\* when its length without the surrounding whitespace is below 2 or above
\* 65535.
SentMessage == api_call.op \in {"make_comment", "reply"}
MessageAcceptedInWindow ==
    SentMessage
        => ((api_result = Throw("ValueError"))
               <=> ~(2 <= api_call.message.body /\ api_call.message.body <= 65535))
MessageWindowWitness ==
    /\ SentMessage
    /\ api_call.message = Text(MaxPad, 65535, MaxPad)
    /\ api_result.t = "returned"
    /\ request_body.params.message = Text(0, 65535, 0)

\* C17: a make_comment or reply that message validation rejects issues no
\* POST and leaves the request id counter as it was.
RejectedMessageSendsNothing ==
    [][(SentMessage' /\ api_result' = Throw("ValueError"))
          => (request_id' = request_id /\ requests' = 0 /\ request_body' = NoBody)]_vars
RejectedMessageWitness ==
    /\ SentMessage
    /\ api_result = Throw("ValueError")
    /\ request_id > 0
    /\ requests = 0

\* C18: setting a username whose trimmed length is outside [2, 128) raises a
\* ValueError and keeps the stored username; one inside is stored trimmed.
UsernameSetterChecksLength ==
    [][api_call'.op = "set_username"
          => IF 2 <= api_call'.name.body /\ api_call'.name.body < 128
             THEN /\ username' = Text(0, api_call'.name.body, 0)
                  /\ api_result' = Return(NoneRet)
             ELSE /\ username' = username
                  /\ api_result' = Throw("ValueError")]_vars
UsernameRejectedWitness ==
    /\ api_call.op = "set_username"
    /\ api_call.name.body = 128
    /\ api_result = Throw("ValueError")
    /\ username = Text(0, 2, 0)

\* C19: a request sent with a uri parameter carries a uri that starts with
\* lbry://: the given uri when it has the prefix, else lbry:// and the given
\* uri.
HasUriParam ==
    /\ request_body # NoBody
    /\ "params" \in DOMAIN request_body
    /\ "uri" \in DOMAIN request_body.params
SentUriHasScheme ==
    HasUriParam
        => LET sent == request_body.params.uri
               has_prefix == /\ Len(api_call.uri) >= 7
                             /\ SubSeq(api_call.uri, 1, 7) = Scheme
           IN /\ SubSeq(sent, 1, 7) = Scheme
              /\ sent = IF has_prefix THEN api_call.uri ELSE Scheme \o api_call.uri
SentUriWitness ==
    /\ HasUriParam
    /\ api_call.uri = Scheme \o <<"a">>
    /\ request_body.params.uri = Scheme \o <<"a">>
    /\ request_body.method = "comment"

\* C20: every request envelope a client creates has an id above the ids of
\* all envelopes created before it in the process, whichever instance of the
\* client created them.
EnvelopeIdsIncrease ==
    (Cardinality(creators) = 1 /\ last_id # -1) => last_id > highest_id

\* ------------------------------------------ properties, discovery and ids
\* Discovery (create_index_tree) has returned its dict to
\* populate_comment_with_replies.
DiscoveryDone ==
    /\ op = "build_tree"
    /\ GotRoot
    /\ stack = <<>>
    /\ caller = "populate_comment_with_replies" \/ (pc = "done" /\ ret.t = "tree")

\* C22: after discovery on an acyclic reply graph (every request answered)
\* the keys of the index tree are exactly the ids reachable from root_id
\* that have at least one reply, and each key maps to the server's ordered
\* list of that id's direct replies.
DiscoveryMatchesServer ==
    (DiscoveryDone /\ AllAnswered /\ AcyclicFrom(root_id)) =>
        /\ DOMAIN index_tree = {c \in Reachable(root_id) : Replies(c) # <<>>}
        /\ \A k \in DOMAIN index_tree : index_tree[k] = Replies(k)

\* C23 as stated: in every POSTed chunk the id of an entry is its position
\* within that chunk, so the ids restart at 0 in every chunk.
IdsRestartInEveryChunk ==
    op = "run_batch" =>
        \A k \in DOMAIN posts : \A i \in DOMAIN posts[k] : posts[k][i].id = i - 1

\* C23, amended: the id of an entry is the position of its call in the whole
\* call list (chunk offset plus position in the chunk), so no two entries of
\* one jsonrpc_batch call share an id, within a chunk or across chunks.
IdsArePositionsInCallList ==
    op = "run_batch" =>
        /\ \A k \in DOMAIN posts : \A i \in DOMAIN posts[k] :
              /\ posts[k][i].id = ChunkSize * (k - 1) + (i - 1)
              /\ batch[posts[k][i].id + 1] = posts[k][i].params
        /\ \A k, l \in DOMAIN posts : \A i \in DOMAIN posts[k] : \A j \in DOMAIN posts[l] :
              posts[k][i].id = posts[l][j].id => (k = l /\ i = j)

IdsAcrossChunksWitness ==
    /\ op = "run_batch"
    /\ pc = "done"
    /\ Len(posts) = 2
    /\ Len(posts[2]) = ChunkSize
    /\ posts[2][1].id = ChunkSize

\* C24: in every tree build_tree returns, each node whose id is not a key of
\* the index tree has a `replies` entry, and it is the empty sequence.
LeavesHaveEmptyReplies ==
    TreeReturned =>
        \A a \in TreeAddrs(nodes, ret.root) :
            nodes[a].comment_index \notin DOMAIN index_tree =>
                (nodes[a].has_replies /\ nodes[a].replies = <<>>)

\* C25: during one build_tree on an acyclic reply graph at most one
\* get_comment_replies call is POSTed for each comment id, and none once
\* populate_comment_with_replies has started its own loop (materialization).
ExpandedAtMostOnce ==
    [][(op' = "build_tree" /\ AcyclicFrom(root_id')) =>
          /\ \A id \in RootIds : expansions'[id] <= 1
          /\ caller = "populate_comment_with_replies" => expansions' = expansions]_vars

ExpandedAtMostOnceWitness ==
    /\ TreeReturned
    /\ AcyclicFrom(root_id)
    /\ \A id \in Ids : expansions[id] = 1
    /\ \E a \in DOMAIN nodes : nodes[a].has_replies

\* A cycle of the reply relation can be reached from root_id: with one
\* parent_com per comment, root_id is then on the cycle.
CycleFromRoot == op = "build_tree" /\ GotRoot /\ ~AcyclicFrom(root_id)

\* create_index_tree awaits the jsonrpc_batch call for `parents`.
Discovering == pc = "batch" /\ caller = "create_index_tree"

RECURSIVE SumOver(_, _)
SumOver(f, S) ==
    IF S = {} THEN 0
    ELSE LET x == CHOOSE y \in S : TRUE
         IN f[x] + SumOver(f, S \ {x})

\* The number of times line 45 (index_tree[parents[i]] = replies) has run
\* while every request was answered: once for each answered expansion of an
\* id that has replies (the expansions of `parents` are still in flight).
RecordedLists ==
    SumOver(expansions, {id \in Ids : Replies(id) # <<>>})
        - Cardinality({i \in DOMAIN parents : Replies(parents[i]) # <<>>})

\* C26 as stated: with a cycle reachable from root_id the index tree is not
\* bounded by the number of distinct comment ids: once discovery has
\* recorded more reply lists than there are comment ids, the index tree
\* holds more entries than there are comment ids.
IndexTreeOutgrowsIds ==
    (CycleFromRoot /\ AllAnswered /\ Discovering /\ RecordedLists > MaxComments) =>
        Cardinality(DOMAIN index_tree) > MaxComments

\* C26, amended: with a cycle reachable from root_id discovery has no guard
\* and does not complete while every request is answered, but the index
\* tree stays bounded: its keys are comment ids, one entry per id, however
\* many reply lists were recorded.
CycleKeepsDiscovering ==
    CycleFromRoot =>
        /\ DOMAIN index_tree \subseteq Ids
        /\ Cardinality(DOMAIN index_tree) <= MaxComments
        /\ AllAnswered => Discovering

CycleKeepsDiscoveringWitness ==
    /\ CycleFromRoot
    /\ AllAnswered
    /\ Discovering
    /\ RecordedLists > MaxComments
    /\ \E id \in Ids : expansions[id] >= 3

\* ------------------------------------------- properties, concurrent sessions
\* C27: under every interleaving of concurrent tasks, each with a client of
\* its own, no two envelopes are created with the same id.
SessionIdsDistinct ==
    \A i, j \in DOMAIN envelopes :
        envelopes[i].id = envelopes[j].id => i = j

\* Two tasks await their POSTs at the same time, one of them for its second
\* request, made while the other was suspended.
SessionIdsWitness ==
    /\ Len(envelopes) >= 3
    /\ \E s, t \in Sessions :
          /\ s # t
          /\ sessions[s].pc = "awaiting"
          /\ sessions[t].pc = "awaiting"
          /\ \E i, j, k \in DOMAIN envelopes :
                /\ i < j /\ j < k
                /\ envelopes[i].session = s
                /\ envelopes[j].session = t
                /\ envelopes[k].session = s

\* ----------------------------------------------------- properties, migrator
Migrated == Contains(table_info(database, "file"), "added_at")

\* C21: a run of do_migration on a database whose `file` table already has
\* the added_at column ends at the guard and leaves the tables, their
\* columns and every row as they were; a further run, at any later time,
\* leaves the same database again.
MigratedDatabaseUnchanged ==
    [][(migrations' = migrations + 1 /\ Migrated) =>
          /\ database' = database
          /\ migration' = [raised |-> "none", printed |-> "already migrated"]
          /\ \A clock \in 0..MaxClock : \A multi \in MultiStatementErrors :
                do_migration(database', clock, multi).database = database']_vars

MigratedTwiceWitness ==
    /\ migrations = 2
    /\ Migrated
    /\ Cardinality(database["file"].rows) = MaxFiles
    /\ \E r \in database["file"].rows : r[Len(r)] < now
    /\ migration = [raised |-> "none", printed |-> "already migrated"]
====
